---- MODULE Spec2Model ----
(***************************************************************************)
(* State-machine model of the FaceRecognition pipeline of simple-kyc       *)
(* (static/face-recognizer.js, kept as src/unnamed/part_000).              *)
(*                                                                         *)
(* JavaScript runs one callback at a time, so every action below is the    *)
(* code that runs between two suspension points (an `await`, an event, a   *)
(* requestAnimationFrame callback).  A suspended call is represented by a  *)
(* counter (how many calls wait at that `await`) or, where the call has    *)
(* local state, by an element of a bag.                                    *)
(*                                                                         *)
(* Two kinds of step resume suspended code.  A microtask is the            *)
(* continuation of an `await` on a promise that is already settled; the    *)
(* event loop drains the microtasks before it runs the next task.  A task  *)
(* is an event, a network or camera answer, an inference result or a       *)
(* frame callback.  The calls of the page (initialize, stopProcessing,     *)
(* disposeUnusedResources) may come at any moment.                         *)
(***************************************************************************)
EXTENDS Integers, Sequences, FiniteSets, Bags, TLC

\* ---------------------------------------------------------------- bounds
NumInstances == 2   \* FaceRecognition objects constructed in the page
\* calls and events issued to the one instance of Spec
MaxInits == 2       \* initialize() calls
MaxPlays == 2       \* 'play' events
MaxStops == 2       \* stopProcessing() calls
MaxDisposes == 1    \* disposeUnusedResources() calls
\* calls and events issued to the one instance of SpecCycle
CycleInits == 2
CyclePlays == 1
CycleStops == 1
CycleDisposes == 1
NumTracks == 2      \* hardware tracks owned by one camera stream
MaxFaces == 1       \* faces the detector reports in one frame

\* ------------------------------------------------------ program constants
maxCanvasPoolSize == 10
NumNets == 4
\* CONFIG, lines 252-253, in tenths: 0.5 and 0.5
distanceThreshold == 5
smileDetectionThreshold == 5

Instances == 1..NumInstances
Nets == 1..NumNets
Tracks == 1..NumTracks
\* config.labels, the ordered list of enrollment labels
Labels == <<"alice", "bob">>
LabelSet == {Labels[k] : k \in 1..Len(Labels)}

NoMatcher == <<>>          \* this.faceMatcher is undefined or null
NoCanvas == <<>>           \* this.canvas is undefined or null
NoStream == 0              \* this.videoStream is undefined or null
NoFailure == 0             \* every track.stop() returns

\* A value that may be undefined is the set of its values: {} or {v}
Undefined == {}

\* What the detector reports of one face: the distance, in tenths, from its
\* descriptor to the nearest descriptor of a gallery, and expressions?.happy, in
\* tenths, which may be undefined
Detection(d, h) == [distance |-> d, happy |-> h]
ScenarioA == Detection(4, {9})
ScenarioD == Detection(6, {1})
Distances == {4, 5, 6}
HappyScores == {Undefined, {1}, {5}, {9}}
AllDetections == {Detection(d, h) : d \in Distances, h \in HappyScores}

VARIABLES
    \* static state of the class
    modelLoader,        \* FaceRecognition.modelLoader: "none", "pending", "resolved", "rejected"
    netStatus,          \* the four loadFromUri promises: "idle", "pending", "fulfilled", "rejected"
    loadsStarted,       \* how many times the Promise.allSettled([...]) load sequence was started
    observed,           \* outcomes the callers of loadModels have seen
    lateCalls,          \* loadModels calls made after the load had rejected
    \* environment
    fetchFails,         \* labels whose reference image cannot be fetched or shows no face
    budget,             \* per instance: calls and events the environment may still issue
    probes,             \* detections the detector may report in a frame
    faultyTracks,       \* hardware tracks whose stop() may throw
    \* one FaceRecognition instance each
    videoStream,        \* this.videoStream: NoStream or the index of a stream in streams
    streams,            \* camera streams handed to the instance: the set of live tracks of each
    canvas,             \* this.canvas: NoCanvas or a canvas id <<instance, number>>
    canvasPool,         \* this.canvasPool
    canvasCreated,      \* document.createElement('canvas') calls made by the instance
    removed,            \* canvases on which remove() was called
    labeledDescriptors, \* keys of this.labeledDescriptors
    fetched,            \* labels whose reference was requested since the gallery was last cleared
    faceMatcher,        \* this.faceMatcher: NoMatcher or <<labels it was built from>>
    listeners,          \* 'play' listeners registered on the video element
    drawn,              \* the detections and labels the last updateCanvas drew
    \* suspended calls
    initLoading,        \* initialize() calls awaiting loadModels
    initOutcomes,       \* how the initialize() calls of the instance have settled so far
    camWaiting,         \* setupWebcam() calls awaiting getUserMedia
    metaWaiting,        \* a setupWebcam() call awaits the onloadedmetadata it installed
    stopping,           \* bag of stopWebcam() calls awaiting Promise.all: the stream each one stopped
    builds,             \* bag of getLabeledFaceDescriptors() calls awaiting a fetch
    rafPending,         \* requestAnimationFrame callbacks scheduled and not yet run
    inflight,           \* processVideoFrames() calls awaiting detectAllFaces
    \* history
    stopRequested,      \* stopProcessing() was called and no stream was acquired since
    matcherDisposed     \* stopWebcam disposed a matcher and none was built since

loaderVars == <<modelLoader, netStatus, loadsStarted, observed, lateCalls>>
camVars == <<videoStream, streams, camWaiting, metaWaiting>>
canvasVars == <<canvas, canvasPool, canvasCreated, removed>>
matcherVars == <<labeledDescriptors, faceMatcher, builds, fetched>>
loopVars == <<rafPending, inflight>>
envVars == <<fetchFails, probes, faultyTracks>>
vars == <<modelLoader, netStatus, loadsStarted, observed, lateCalls, fetchFails,
          budget, probes, faultyTracks, drawn, videoStream, streams, canvas,
          canvasPool, canvasCreated, removed, labeledDescriptors, fetched,
          faceMatcher, listeners, initLoading, initOutcomes, camWaiting,
          metaWaiting, stopping, builds, rafPending, inflight, stopRequested,
          matcherDisposed>>

\* ------------------------------------------------------------ pure helpers

\* A loadModels that caches the loaded models instead of the pending promise
ShouldStartLoadUnlessLoaded(ml) == ml # "resolved"

\* A loadModels that tries again after a failed load
ShouldStartLoadAfterFailure(ml) == ml \in {"none", "rejected"}

\* loadModels, line 21: the load sequence is started only when no loader is cached
ShouldStartLoad(ml) == ml = "none"

\* An initialize that goes on to the camera whatever loadModels answered
ProceedsAfterAnyLoad(ml) == TRUE

\* initialize, line 42: the await throws when the loader rejected, and lines 45-48
\* rethrow; the start sequence goes on only when it resolved
ProceedsAfterLoad(ml) == ml = "resolved"

\* loadModels, lines 27-34: the aggregate outcome once all four loads have settled
Rejected(ns) == {n \in Nets : ns[n] = "rejected"}

\* An aggregation that rejects with the first failure alone, as Promise.all would
AggregateFirstError(ns) ==
    IF Rejected(ns) # {}
    THEN <<"rejected", {CHOOSE n \in Rejected(ns) : \A m \in Rejected(ns) : n <= m}>>
    ELSE <<"resolved", {}>>

AggregateOutcome(ns) ==
    IF Rejected(ns) # {} THEN <<"rejected", Rejected(ns)>> ELSE <<"resolved", {}>>

\* An acquisition that ignores the pool
AcquireCanvasAlwaysCreate(i, pool, created) ==
    [canvas |-> <<i, created + 1>>, pool |-> pool, created |-> created + 1]

\* An acquisition that reads the top of the pool and leaves it there
AcquireCanvasWithoutPop(i, pool, created) ==
    IF Len(pool) > 0
    THEN [canvas |-> pool[Len(pool)], pool |-> pool, created |-> created]
    ELSE [canvas |-> <<i, created + 1>>, pool |-> pool, created |-> created + 1]

\* setupCanvas line 100 / createCanvas line 111:
\*   this.canvasPool.length > 0 ? this.canvasPool.pop() : document.createElement('canvas')
AcquireCanvas(i, pool, created) ==
    IF Len(pool) > 0
    THEN [canvas |-> pool[Len(pool)], pool |-> SubSeq(pool, 1, Len(pool) - 1),
          created |-> created]
    ELSE [canvas |-> <<i, created + 1>>, pool |-> pool, created |-> created + 1]

\* A release whose capacity comparison is inverted
ReleaseCanvasInverted(pool, c) ==
    IF Len(pool) > maxCanvasPoolSize
    THEN [pool |-> Append(pool, c), removed |-> {}]
    ELSE [pool |-> pool, removed |-> {c}]

\* cleanupCanvas, lines 204-208: push below the capacity, remove() otherwise
ReleaseCanvas(pool, c) ==
    IF Len(pool) < maxCanvasPoolSize
    THEN [pool |-> Append(pool, c), removed |-> {}]
    ELSE [pool |-> pool, removed |-> {c}]

\* A stop that stops getTracks()[0] alone
StopFirstTrackOnly(live, fail) == live \ {1}

\* stopWebcam, line 73: getTracks().map(track => track.stop()) stops the tracks in
\* order; when the stop() of track `fail` throws, the map ends there and that track
\* and the ones after it are left as they were
StopTracks(live, fail) == IF fail = NoFailure THEN {} ELSE {t \in live : t >= fail}

\* getLabeledFaceDescriptors, lines 180-181: the next label after position k that
\* this.labeledDescriptors does not hold; 0 when the loop is over
NextLabel(k, gallery) ==
    LET later == {j \in (k + 1)..Len(Labels) : Labels[j] \notin gallery}
    IN  IF later = {} THEN 0 ELSE CHOOSE j \in later : \A m \in later : j <= m

\* getLabeledFaceDescriptors, lines 183-194: the descriptors map after the fetch and
\* the detection of one label settled
AfterFetch(desc, label, fails) ==
    IF label \in fails THEN desc ELSE desc \cup {label}

\* setupFaceMatcher, lines 132-135: the matcher is a snapshot of the gallery
BuildMatcher(gallery) == <<gallery>>

\* new faceapi.FaceMatcher(array), line 135: the constructor accepts any gallery,
\* the empty one included
FaceMatcherThrows(gallery) == FALSE

\* updateCanvas, lines 156-160: the render throws when this.canvas is absent, or
\* when a detection is to be matched and this.faceMatcher is absent
RenderThrows(c, fm, faces) == c = NoCanvas \/ (faces > 0 /\ fm = NoMatcher)

\* a < b and a > b of JavaScript, where a may be undefined: both are then false
JsLess(a, b) == \E v \in a : v < b
JsGreater(a, b) == \E v \in a : v > b

\* FaceMatcher.findBestMatch: the distance to the nearest descriptor of the gallery
\* the matcher was built from; a matcher built from an empty gallery has no match
FindBestMatch(fm, det) ==
    IF fm[1] = {} THEN [distance |-> Undefined] ELSE [distance |-> {det.distance}]

\* A comparison that takes a missing distance for a match
IsKnownUnlessFar(match) == ~JsGreater(match.distance, distanceThreshold - 1)

\* updateCanvas, line 161
IsKnown(match) == JsLess(match.distance, distanceThreshold)

\* A smile test that includes the threshold
IsSmilingAtThreshold(det) == JsGreater(det.happy, smileDetectionThreshold - 1)

\* updateCanvas, line 162: detection.expressions?.happy > smileDetectionThreshold
IsSmiling(det) == JsGreater(det.happy, smileDetectionThreshold)

\* updateCanvas, lines 164-170
LabelOf(isKnown, isSmiling) ==
    IF isKnown
    THEN (IF isSmiling THEN "Known Smiling" ELSE "Known Not Smiling")
    ELSE (IF isSmiling THEN "Unknown Smiling" ELSE "Unknown Not Smiling")

\* updateCanvas, lines 159-173: one labelled box per detection
UpdateCanvas(fm, dets) ==
    [k \in 1..Len(dets) |->
        [det |-> dets[k],
         label |-> LabelOf(IsKnown(FindBestMatch(fm, dets[k])), IsSmiling(dets[k]))]]

\* the results detectAllFaces may resolve with: up to MaxFaces detections
Frames(ps) == UNION {[1..n -> ps] : n \in 0..MaxFaces}

LiveStreams(i) == {s \in 1..Len(streams[i]) : streams[i][s] # {}}

Copies(b, n) == [x \in {b} |-> n]

\* The microtask queue is empty: no stopWebcam waits on its Promise.all (line 73),
\* the allSettled reaction is not due (line 27) and no initialize waits on a
\* settled modelLoader (line 42).  Tasks run only then.
MicrotasksDone ==
    /\ \A i \in Instances : stopping[i] = EmptyBag
    /\ ~(modelLoader = "pending" /\ \A n \in Nets : netStatus[n] \in {"fulfilled", "rejected"})
    /\ ~(modelLoader \in {"resolved", "rejected"} /\ \E i \in Instances : initLoading[i] > 0)

\* ------------------------------------------------------------------- Init

\* Spec: every call and event goes to one instance
Budget(i) ==
    IF i = 1 THEN [init |-> MaxInits, play |-> MaxPlays, stop |-> MaxStops,
                   dispose |-> MaxDisposes]
    ELSE [init |-> 0, play |-> 0, stop |-> 0, dispose |-> 0]

\* SpecCycle: one instance, started, stopped and started again
CycleBudget(i) ==
    IF i = 1 THEN [init |-> CycleInits, play |-> CyclePlays, stop |-> CycleStops,
                   dispose |-> CycleDisposes]
    ELSE [init |-> 0, play |-> 0, stop |-> 0, dispose |-> 0]

\* SpecShared: every instance of the page is initialized once; the first one is
\* also played, stopped and cleared once
SharedBudget(i) ==
    IF i = 1 THEN [init |-> 1, play |-> 1, stop |-> 1, dispose |-> 1]
    ELSE [init |-> 1, play |-> 0, stop |-> 0, dispose |-> 0]

InitState ==
    /\ modelLoader = "none"
    /\ netStatus = [n \in Nets |-> "idle"]
    /\ loadsStarted = 0
    /\ observed = {}
    /\ lateCalls = 0
    /\ videoStream = [i \in Instances |-> NoStream]
    /\ streams = [i \in Instances |-> <<>>]
    /\ canvas = [i \in Instances |-> NoCanvas]
    /\ canvasPool = [i \in Instances |-> <<>>]
    /\ canvasCreated = [i \in Instances |-> 0]
    /\ removed = {}
    /\ labeledDescriptors = [i \in Instances |-> {}]
    /\ fetched = [i \in Instances |-> {}]
    /\ faceMatcher = [i \in Instances |-> NoMatcher]
    /\ listeners = [i \in Instances |-> 0]
    /\ drawn = [i \in Instances |-> <<>>]
    /\ initLoading = [i \in Instances |-> 0]
    /\ initOutcomes = [i \in Instances |-> {}]
    /\ camWaiting = [i \in Instances |-> 0]
    /\ metaWaiting = [i \in Instances |-> FALSE]
    /\ stopping = [i \in Instances |-> EmptyBag]
    /\ builds = [i \in Instances |-> EmptyBag]
    /\ rafPending = [i \in Instances |-> 0]
    /\ inflight = [i \in Instances |-> 0]
    /\ stopRequested = [i \in Instances |-> FALSE]
    /\ matcherDisposed = [i \in Instances |-> FALSE]

Init ==
    /\ InitState
    /\ fetchFails \in SUBSET LabelSet
    /\ probes = {ScenarioA}
    /\ faultyTracks = Tracks
    /\ budget = [i \in Instances |-> Budget(i)]

\* the references of the cycle: alice's image is usable, bob's fetch fails; nobody
\* is in front of the camera and the hardware is sound
InitCycle ==
    /\ InitState
    /\ fetchFails = {"bob"}
    /\ probes = {}
    /\ faultyTracks = {}
    /\ budget = [i \in Instances |-> CycleBudget(i)]

InitShared ==
    /\ InitState
    /\ fetchFails \in SUBSET LabelSet
    /\ probes = {ScenarioA}
    /\ faultyTracks = {}
    /\ budget = [i \in Instances |-> SharedBudget(i)]

\* SpecLabels: Scenarios A and D; one start, one stop, every detection of the range
LabelsBudget(i) ==
    IF i = 1 THEN [init |-> 1, play |-> 1, stop |-> 1, dispose |-> 1]
    ELSE [init |-> 0, play |-> 0, stop |-> 0, dispose |-> 0]

InitLabels ==
    /\ InitState
    /\ fetchFails = {"bob"}
    /\ probes = AllDetections
    /\ faultyTracks = {}
    /\ budget = [i \in Instances |-> LabelsBudget(i)]

\* SpecStops: one start of one instance, stopped twice
StopsBudget(i) ==
    IF i = 1 THEN [init |-> 1, play |-> 1, stop |-> 2, dispose |-> 1]
    ELSE [init |-> 0, play |-> 0, stop |-> 0, dispose |-> 0]

InitStops ==
    /\ InitState
    /\ fetchFails = {"bob"}
    /\ probes = {ScenarioA}
    /\ faultyTracks = {}
    /\ budget = [i \in Instances |-> StopsBudget(i)]

\* SpecEmpty: the start of SpecLabels with no usable reference at all
InitEmpty ==
    /\ InitState
    /\ fetchFails = LabelSet
    /\ probes = AllDetections
    /\ faultyTracks = {}
    /\ budget = [i \in Instances |-> LabelsBudget(i)]

Spend(i, what) == budget' = [budget EXCEPT ![i][what] = @ - 1]

\* ------------------------------------------------------- model loading

\* startProcessing, lines 82-89: one more anonymous 'play' listener; onended is set
startProcessing(i) == listeners' = [listeners EXCEPT ![i] = @ + 1]

\* setupWebcam up to its first await (lines 60-62), entered from initialize line 43;
\* with a stream already held it returns and initialize goes on to startProcessing
setupWebcamCall(i) ==
    IF videoStream[i] = NoStream
    THEN /\ camWaiting' = [camWaiting EXCEPT ![i] = @ + 1]
         /\ UNCHANGED listeners
    ELSE /\ startProcessing(i)
         /\ UNCHANGED camWaiting

\* initialize() is called: loadModels runs up to its return (lines 20-37, 40-42)
Initialize(i) ==
    /\ budget[i].init > 0
    /\ Spend(i, "init")
    /\ IF ShouldStartLoad(modelLoader)
       THEN /\ modelLoader' = "pending"
            /\ netStatus' = [n \in Nets |-> "pending"]
            /\ loadsStarted' = loadsStarted + 1
       ELSE UNCHANGED <<modelLoader, netStatus, loadsStarted>>
    /\ lateCalls' = IF modelLoader = "rejected" THEN lateCalls + 1 ELSE lateCalls
    /\ initLoading' = [initLoading EXCEPT ![i] = @ + 1]
    /\ UNCHANGED <<observed, envVars, drawn, initOutcomes, camVars, canvasVars, matcherVars, loopVars,
                   listeners, stopping, stopRequested, matcherDisposed>>

\* one loadFromUri promise settles
NetSettles(n, ok) ==
    /\ MicrotasksDone
    /\ netStatus[n] = "pending"
    /\ netStatus' = [netStatus EXCEPT ![n] = IF ok THEN "fulfilled" ELSE "rejected"]
    /\ UNCHANGED <<modelLoader, loadsStarted, observed, lateCalls, envVars, drawn, budget, camVars,
                   canvasVars, matcherVars, loopVars, listeners, initLoading, initOutcomes, stopping,
                   stopRequested, matcherDisposed>>

\* Promise.allSettled(...).then(...), lines 27-34
LoadSettles ==
    /\ modelLoader = "pending"
    /\ \A n \in Nets : netStatus[n] \in {"fulfilled", "rejected"}
    /\ modelLoader' = AggregateOutcome(netStatus)[1]
    /\ UNCHANGED <<netStatus, loadsStarted, observed, lateCalls, envVars, drawn, budget, camVars,
                   canvasVars, matcherVars, loopVars, listeners, initLoading, initOutcomes, stopping,
                   stopRequested, matcherDisposed>>

\* initialize resumes after `await FaceRecognition.loadModels` (lines 42-48)
InitAfterLoad(i) ==
    /\ initLoading[i] > 0
    /\ modelLoader \in {"resolved", "rejected"}
    /\ initLoading' = [initLoading EXCEPT ![i] = @ - 1]
    /\ observed' = observed \cup {AggregateOutcome(netStatus)}
    /\ IF ProceedsAfterLoad(modelLoader)
       THEN /\ setupWebcamCall(i)
            /\ initOutcomes' = [initOutcomes EXCEPT ![i] =
                    IF videoStream[i] = NoStream THEN @ ELSE @ \cup {"fulfilled"}]
       ELSE /\ initOutcomes' = [initOutcomes EXCEPT ![i] = @ \cup {"ModelLoadError"}]
            /\ UNCHANGED <<camWaiting, listeners>>
    /\ UNCHANGED <<modelLoader, netStatus, loadsStarted, lateCalls, envVars, drawn, budget, videoStream,
                   streams, metaWaiting, canvasVars, matcherVars, loopVars, stopping,
                   stopRequested, matcherDisposed>>

\* ------------------------------------------------------------- the camera

\* createCanvas, lines 109-114
createCanvas(i) ==
    IF canvas[i] = NoCanvas
    THEN LET a == AcquireCanvas(i, canvasPool[i], canvasCreated[i])
         IN  /\ canvas' = [canvas EXCEPT ![i] = a.canvas]
             /\ canvasPool' = [canvasPool EXCEPT ![i] = a.pool]
             /\ canvasCreated' = [canvasCreated EXCEPT ![i] = a.created]
    ELSE UNCHANGED <<canvas, canvasPool, canvasCreated>>

\* setupCanvas, lines 98-106: the same acquisition; it also sizes the canvas
setupCanvas(i) == createCanvas(i)

\* A cleanupCanvas without the test of line 203
cleanupCanvasUnguarded(i) ==
    LET r == ReleaseCanvas(canvasPool[i], canvas[i])
    IN  /\ canvasPool' = [canvasPool EXCEPT ![i] = r.pool]
        /\ removed' = removed \cup r.removed
        /\ canvas' = [canvas EXCEPT ![i] = NoCanvas]

\* cleanupCanvas, lines 202-211
cleanupCanvas(i) ==
    IF canvas[i] # NoCanvas
    THEN LET r == ReleaseCanvas(canvasPool[i], canvas[i])
         IN  /\ canvasPool' = [canvasPool EXCEPT ![i] = r.pool]
             /\ removed' = removed \cup r.removed
             /\ canvas' = [canvas EXCEPT ![i] = NoCanvas]
    ELSE UNCHANGED <<canvas, canvasPool, removed>>

\* disposeFaceMatcher, lines 219-224
disposeFaceMatcher(i) == faceMatcher' = [faceMatcher EXCEPT ![i] = NoMatcher]

\* getUserMedia resolves: setupWebcam lines 62-64 store the stream, overwriting
\* whatever this.videoStream held, and install a fresh onloadedmetadata resolver
CameraResolves(i) ==
    /\ MicrotasksDone
    /\ camWaiting[i] > 0
    /\ camWaiting' = [camWaiting EXCEPT ![i] = @ - 1]
    /\ streams' = [streams EXCEPT ![i] = Append(@, Tracks)]
    /\ videoStream' = [videoStream EXCEPT ![i] = Len(streams[i]) + 1]
    /\ metaWaiting' = [metaWaiting EXCEPT ![i] = TRUE]
    /\ stopRequested' = [stopRequested EXCEPT ![i] = FALSE]
    /\ UNCHANGED <<loaderVars, envVars, drawn, budget, canvasVars, matcherVars, loopVars,
                   listeners, initLoading, initOutcomes, stopping, matcherDisposed>>

\* getUserMedia rejects: setupWebcam and initialize reject (lines 45-48)
CameraRejects(i) ==
    /\ MicrotasksDone
    /\ camWaiting[i] > 0
    /\ camWaiting' = [camWaiting EXCEPT ![i] = @ - 1]
    /\ initOutcomes' = [initOutcomes EXCEPT ![i] = @ \cup {"CameraAcquisitionError"}]
    /\ UNCHANGED <<loaderVars, envVars, drawn, budget, videoStream, streams, metaWaiting,
                   canvasVars, matcherVars, loopVars, listeners, initLoading, stopping,
                   stopRequested, matcherDisposed>>

\* 'loadedmetadata' of the attached stream: setupWebcam lines 65-66 run, then
\* initialize calls startProcessing (line 44)
MetadataLoaded(i) ==
    /\ MicrotasksDone
    /\ metaWaiting[i]
    /\ videoStream[i] # NoStream
    /\ metaWaiting' = [metaWaiting EXCEPT ![i] = FALSE]
    /\ createCanvas(i)
    /\ startProcessing(i)
    /\ initOutcomes' = [initOutcomes EXCEPT ![i] = @ \cup {"fulfilled"}]
    /\ UNCHANGED <<loaderVars, envVars, drawn, budget, videoStream, streams, camWaiting,
                   removed, matcherVars, loopVars, initLoading, stopping, stopRequested,
                   matcherDisposed>>

\* ------------------------------------------------------ the 'play' handlers

\* A 'play' event runs every registered listener (lines 83-87) up to its await.
\* A handler whose FaceMatcher constructor throws rejects and schedules nothing.
\* Each runs setupCanvas and enters setupFaceMatcher (lines 126-137): with a matcher
\* cached it returns; with a gallery cached it builds the matcher at once; with an
\* empty gallery it starts getLabeledFaceDescriptors, which suspends at its first
\* fetch.  A handler whose setupFaceMatcher did not suspend on a fetch resumes in
\* the next microtask and schedules its frame callback (line 86).
PlayEvent(i) ==
    /\ MicrotasksDone
    /\ budget[i].play > 0
    /\ listeners[i] > 0
    /\ Spend(i, "play")
    /\ setupCanvas(i)
    /\ IF faceMatcher[i] # NoMatcher
       THEN /\ rafPending' = [rafPending EXCEPT ![i] = @ + listeners[i]]
            /\ UNCHANGED <<faceMatcher, builds, fetched, matcherDisposed>>
       ELSE IF labeledDescriptors[i] # {} /\ FaceMatcherThrows(labeledDescriptors[i])
       THEN UNCHANGED <<faceMatcher, builds, fetched, rafPending, matcherDisposed>>
       ELSE IF labeledDescriptors[i] # {}
       THEN /\ faceMatcher' = [faceMatcher EXCEPT ![i] = BuildMatcher(labeledDescriptors[i])]
            /\ matcherDisposed' = [matcherDisposed EXCEPT ![i] = FALSE]
            /\ rafPending' = [rafPending EXCEPT ![i] = @ + listeners[i]]
            /\ UNCHANGED <<builds, fetched>>
       ELSE /\ builds' = [builds EXCEPT ![i] =
                    @ (+) Copies([k |-> NextLabel(0, {}), desc |-> {}], listeners[i])]
            /\ fetched' = [fetched EXCEPT ![i] = @ \cup {Labels[NextLabel(0, {})]}]
            /\ UNCHANGED <<faceMatcher, rafPending, matcherDisposed>>
    /\ UNCHANGED <<loaderVars, envVars, drawn, camVars, removed, labeledDescriptors,
                   inflight, listeners, initLoading, initOutcomes, stopping, stopRequested>>

\* The fetch and the detection of one reference image settle (lines 184-194) and the
\* loop of getLabeledFaceDescriptors goes on to the next label that
\* this.labeledDescriptors lacks (line 181).  When no label is left the map is
\* returned: setupFaceMatcher stores it, builds the matcher from it (lines 129-135)
\* and the handler schedules its frame callback (line 86).
FetchSettles(i) ==
    /\ MicrotasksDone
    /\ \E b \in BagToSet(builds[i]) :
       LET desc == AfterFetch(b.desc, Labels[b.k], fetchFails)
           k2 == NextLabel(b.k, labeledDescriptors[i])
       IN  IF k2 # 0
           THEN /\ builds' = [builds EXCEPT ![i] =
                        (@ (-) Copies(b, 1)) (+) Copies([k |-> k2, desc |-> desc], 1)]
                /\ fetched' = [fetched EXCEPT ![i] = @ \cup {Labels[k2]}]
                /\ UNCHANGED <<labeledDescriptors, faceMatcher, rafPending,
                               matcherDisposed>>
           ELSE /\ builds' = [builds EXCEPT ![i] = @ (-) Copies(b, 1)]
                /\ UNCHANGED fetched
                /\ labeledDescriptors' = [labeledDescriptors EXCEPT ![i] = desc]
                /\ IF FaceMatcherThrows(desc)
                   THEN UNCHANGED <<faceMatcher, matcherDisposed, rafPending>>
                   ELSE /\ faceMatcher' = [faceMatcher EXCEPT ![i] = BuildMatcher(desc)]
                        /\ matcherDisposed' = [matcherDisposed EXCEPT ![i] = FALSE]
                        /\ rafPending' = [rafPending EXCEPT ![i] = @ + 1]
    /\ UNCHANGED <<loaderVars, envVars, drawn, budget, camVars, canvasVars, inflight,
                   listeners, initLoading, initOutcomes, stopping, stopRequested>>

\* disposeUnusedResources, lines 214-216
DisposeUnusedResources(i) ==
    /\ budget[i].dispose > 0
    /\ Spend(i, "dispose")
    /\ labeledDescriptors' = [labeledDescriptors EXCEPT ![i] = {}]
    /\ fetched' = [fetched EXCEPT ![i] = {}]
    /\ UNCHANGED <<loaderVars, envVars, drawn, camVars, canvasVars, faceMatcher, builds,
                   loopVars, listeners, initLoading, initOutcomes, stopping, stopRequested,
                   matcherDisposed>>

\* ----------------------------------------------------------- the frame loop

\* A scheduled frame callback runs: processVideoFrames starts the inference on the
\* current frame and suspends (lines 140-147)
FrameStarts(i) ==
    /\ MicrotasksDone
    /\ rafPending[i] > 0
    /\ rafPending' = [rafPending EXCEPT ![i] = @ - 1]
    /\ inflight' = [inflight EXCEPT ![i] = @ + 1]
    /\ UNCHANGED <<loaderVars, envVars, drawn, budget, camVars, canvasVars, matcherVars,
                   listeners, initLoading, initOutcomes, stopping, stopRequested,
                   matcherDisposed>>

\* The inference resolves with the detections dets: lines 149-151 render and
\* reschedule, unless the render throws, which rejects processVideoFrames: at line
\* 156 with no canvas, or at line 160, after the clearRect, with no matcher
FrameRenders(i) ==
    \E dets \in Frames(probes) :
        /\ MicrotasksDone
        /\ inflight[i] > 0
        /\ inflight' = [inflight EXCEPT ![i] = @ - 1]
        /\ IF RenderThrows(canvas[i], faceMatcher[i], Len(dets))
           THEN /\ UNCHANGED rafPending
                /\ drawn' = [drawn EXCEPT ![i] = IF canvas[i] = NoCanvas THEN @ ELSE <<>>]
           ELSE /\ rafPending' = [rafPending EXCEPT ![i] = @ + 1]
                /\ drawn' = [drawn EXCEPT ![i] = UpdateCanvas(faceMatcher[i], dets)]
        /\ UNCHANGED <<loaderVars, envVars, budget, camVars, canvasVars, matcherVars,
                       listeners, initLoading, initOutcomes, stopping, stopRequested,
                       matcherDisposed>>

\* The inference rejects: processVideoFrames rejects at line 143, nothing catches it
FrameFails(i) ==
    /\ MicrotasksDone
    /\ inflight[i] > 0
    /\ inflight' = [inflight EXCEPT ![i] = @ - 1]
    /\ UNCHANGED <<loaderVars, envVars, drawn, budget, camVars, canvasVars, matcherVars,
                   rafPending, listeners, initLoading, initOutcomes, stopping, stopRequested,
                   matcherDisposed>>

\* ------------------------------------------------------------------- stop

\* stopProcessing (lines 92-95), called by the page or by onended: the
\* removeEventListener names a new function and removes nothing; stopWebcam runs up
\* to its await (lines 71-73), stopping the tracks of the stream it holds.  When a
\* stop() throws, stopWebcam rejects there and stopProcessing, which neither awaits
\* nor catches it, returns
StopProcessing(i) ==
    \E fail \in Tracks \cup {NoFailure} :
        /\ budget[i].stop > 0
        /\ Spend(i, "stop")
        /\ stopRequested' = [stopRequested EXCEPT ![i] = TRUE]
        /\ IF videoStream[i] # NoStream
           THEN /\ fail \in (streams[i][videoStream[i]] \cap faultyTracks) \cup {NoFailure}
                /\ streams' = [streams EXCEPT ![i][videoStream[i]] = StopTracks(@, fail)]
                /\ stopping' = [stopping EXCEPT ![i] =
                        IF fail = NoFailure THEN @ (+) Copies(videoStream[i], 1) ELSE @]
           ELSE /\ fail = NoFailure
                /\ UNCHANGED <<streams, stopping>>
        /\ UNCHANGED <<loaderVars, envVars, drawn, videoStream, camWaiting, metaWaiting,
                       canvasVars, matcherVars, loopVars, listeners, initLoading, initOutcomes,
                       matcherDisposed>>

\* stopWebcam resumes after the await (lines 74-77)
StopWebcamResumes(i) ==
    /\ \E s \in BagToSet(stopping[i]) :
          stopping' = [stopping EXCEPT ![i] = @ (-) Copies(s, 1)]
    /\ videoStream' = [videoStream EXCEPT ![i] = NoStream]
    /\ cleanupCanvas(i)
    /\ disposeFaceMatcher(i)
    /\ matcherDisposed' = [matcherDisposed EXCEPT ![i] = @ \/ faceMatcher[i] # NoMatcher]
    /\ UNCHANGED <<loaderVars, envVars, drawn, budget, streams, camWaiting, metaWaiting,
                   canvasCreated, labeledDescriptors, builds, fetched, loopVars, listeners,
                   initLoading, initOutcomes, stopRequested>>

\* ------------------------------------------------------------ specification

Next ==
    \/ \E i \in Instances : Initialize(i)
    \/ \E n \in Nets, ok \in BOOLEAN : NetSettles(n, ok)
    \/ LoadSettles
    \/ \E i \in Instances : InitAfterLoad(i)
    \/ \E i \in Instances : CameraResolves(i)
    \/ \E i \in Instances : CameraRejects(i)
    \/ \E i \in Instances : MetadataLoaded(i)
    \/ \E i \in Instances : PlayEvent(i)
    \/ \E i \in Instances : FetchSettles(i)
    \/ \E i \in Instances : DisposeUnusedResources(i)
    \/ \E i \in Instances : FrameStarts(i)
    \/ \E i \in Instances : FrameRenders(i)
    \/ \E i \in Instances : FrameFails(i)
    \/ \E i \in Instances : StopProcessing(i)
    \/ \E i \in Instances : StopWebcamResumes(i)

Spec == Init /\ [][Next]_vars

SpecCycle == InitCycle /\ [][Next]_vars

SpecShared == InitShared /\ [][Next]_vars

SpecLabels == InitLabels /\ [][Next]_vars

SpecStops == InitStops /\ [][Next]_vars

SpecEmpty == InitEmpty /\ [][Next]_vars

\* ------------------------------------------------------------------ claims

\* A frame iteration of instance i ends in this step (it rendered, or it failed)
IterationEnds(i) == inflight'[i] < inflight[i]

\* A stopWebcam call of instance i completes in this step
StopCompletes(i) == BagCardinality(stopping'[i]) < BagCardinality(stopping[i])

\* A gallery build of instance i returns in this step
BuildCompletes(i) == BagCardinality(builds'[i]) < BagCardinality(builds[i])

\* Instance i acquires a surface in this step / releases its surface in this step
Acquires(i) == canvas[i] = NoCanvas /\ canvas'[i] # NoCanvas
Releases(i) == canvas[i] # NoCanvas /\ canvas'[i] = NoCanvas

\* C1: however many loadModels calls are made, from whichever instances, exactly
\* one load sequence is started and all callers observe the same outcome.
C1_OneLoadOneOutcome ==
    /\ loadsStarted <= 1
    /\ ((\E i \in Instances : initLoading[i] > 0) \/ observed # {}) => loadsStarted = 1
    /\ Cardinality(observed) <= 1

\* C1 witness: every instance has called loadModels and seen its outcome.
C1_Witness ==
    /\ \A i \in Instances : budget[i].init = 0 /\ initLoading[i] = 0
    /\ listeners[1] > 0 /\ listeners[NumInstances] > 0
    /\ loadsStarted = 1
    /\ observed = {<<"resolved", {}>>}

\* C2: at most one frame iteration of an instance is in flight or scheduled.
C2_SequentialIterations ==
    \A i \in Instances : rafPending[i] + inflight[i] <= 1

\* C3: once a stop request is recorded, no frame callback is scheduled any more:
\* requestAnimationFrame is not called again.
C3_NoRescheduleAfterStop ==
    [][\A i \in Instances : stopRequested[i] => rafPending'[i] <= rafPending[i]]_vars

\* C4: while the instance holds a stream and no stop was requested, an iteration
\* that ends, failed or not, is followed by a scheduled next iteration.
C4_FailureContained ==
    [][\A i \in Instances :
          (IterationEnds(i) /\ videoStream[i] # NoStream /\ ~stopRequested[i])
              => rafPending'[i] = rafPending[i] + 1]_vars

\* C5: the pool never holds more than maxCanvasPoolSize surfaces; a release pushes
\* the surface when the pool is below the capacity and removes it otherwise.
C5_PoolBounded ==
    [][\A i \in Instances :
          /\ Len(canvasPool'[i]) <= maxCanvasPoolSize
          /\ Releases(i) =>
                IF Len(canvasPool[i]) < maxCanvasPoolSize
                THEN canvasPool'[i] = Append(canvasPool[i], canvas[i]) /\ removed' = removed
                ELSE canvasPool'[i] = canvasPool[i] /\ canvas[i] \in removed']_vars

\* C5 witness: a release has put the surface of the instance into its pool.
C5_Witness ==
    \E i \in Instances :
        canvas[i] = NoCanvas /\ canvasPool[i] = << <<i, 1>> >> /\ canvasCreated[i] = 1

\* C6: every live stream of an instance is the one it holds, and the camera is
\* never requested twice at once.
C6_SingleActiveStream ==
    \A i \in Instances :
        /\ camWaiting[i] <= 1
        /\ LiveStreams(i) \subseteq {videoStream[i]}

\* C7: when a stopWebcam call that found a stream completes, every track of that
\* stream is stopped, the handle, the surface and the matcher are cleared, and the
\* surface it held went to the pool, or was removed if the pool was full.
C7_StopReleasesAll ==
    [][\A i \in Instances : StopCompletes(i) =>
          /\ \A s \in BagToSet(stopping[i]) :
                ~BagIn(s, stopping'[i]) => streams'[i][s] = {}
          /\ videoStream'[i] = NoStream
          /\ canvas'[i] = NoCanvas
          /\ faceMatcher'[i] = NoMatcher
          /\ canvas[i] # NoCanvas =>
                IF Len(canvasPool[i]) < maxCanvasPoolSize
                THEN canvasPool'[i] = Append(canvasPool[i], canvas[i])
                ELSE canvasPool'[i] = canvasPool[i] /\ canvas[i] \in removed']_vars

\* C7 witness: a stop made mid-loop has completed; the stream is stopped, the
\* surface is pooled and the matcher built from the gallery is gone.
C7_Witness ==
    \E i \in Instances :
        /\ Len(streams[i]) = 1 /\ streams[i][1] = {}
        /\ videoStream[i] = NoStream /\ stopping[i] = EmptyBag
        /\ canvas[i] = NoCanvas /\ Len(canvasPool[i]) = 1
        /\ labeledDescriptors[i] # {} /\ faceMatcher[i] = NoMatcher
        /\ inflight[i] > 0

\* C8: from the moment a stop disposed the matcher until a matcher is built again,
\* no gallery build is started and the gallery is not replaced, and the matcher
\* that is then built is built from that gallery.
C8_RebuildFromCachedGallery ==
    [][\A i \in Instances :
          (matcherDisposed[i] /\ budget'[i].dispose = budget[i].dispose) =>
              /\ BagCardinality(builds'[i]) <= BagCardinality(builds[i])
              /\ labeledDescriptors'[i] = labeledDescriptors[i]
              /\ faceMatcher'[i] # NoMatcher =>
                    faceMatcher'[i] = BuildMatcher(labeledDescriptors[i])]_vars

\* C9: an acquisition pops the most recently released surface when the pool is not
\* empty and creates one only when it is empty; an instance that has created its
\* surface reuses it on every later start and creates no other.
C9_LifoReuse ==
    [][\A i \in Instances : Acquires(i) =>
          /\ IF canvasPool[i] # <<>>
             THEN /\ canvas'[i] = canvasPool[i][Len(canvasPool[i])]
                  /\ canvasPool'[i] = SubSeq(canvasPool[i], 1, Len(canvasPool[i]) - 1)
                  /\ canvasCreated'[i] = canvasCreated[i]
             ELSE /\ canvas'[i] = <<i, canvasCreated[i] + 1>>
                  /\ canvasPool'[i] = <<>>
                  /\ canvasCreated'[i] = canvasCreated[i] + 1
          /\ canvasCreated[i] >= 1 => canvasCreated'[i] = canvasCreated[i]]_vars

\* C9 witness: the second start of the instance holds the surface that its first
\* start created and its stop released.
C9_Witness ==
    \E i \in Instances :
        /\ Len(streams[i]) = 2 /\ streams[i][1] = {} /\ videoStream[i] = 2
        /\ stopping[i] = EmptyBag
        /\ canvas[i] = <<i, 1>> /\ canvasCreated[i] = 1 /\ canvasPool[i] = <<>>

\* C10: whenever a gallery build returns, the gallery stored on the instance holds
\* exactly the configured labels whose reference did not fail.
C10_GalleryComplete ==
    [][\A i \in Instances :
          BuildCompletes(i) => labeledDescriptors'[i] = LabelSet \ fetchFails]_vars

\* C11: every label drawn is one of the four fixed labels: it says Known exactly when
\* the best-match distance is strictly below distanceThreshold, and Smiling exactly
\* when a 'happy' score is present and strictly above smileDetectionThreshold.
C11_LabelOfDetection ==
    \A i \in Instances : \A k \in 1..Len(drawn[i]) :
        LET d == drawn[i][k].det
            who == IF d.distance < distanceThreshold THEN "Known" ELSE "Unknown"
            smile == IF d.happy # {} /\ (\A v \in d.happy : v > smileDetectionThreshold)
                     THEN "Smiling" ELSE "Not Smiling"
        IN  drawn[i][k].label = who \o " " \o smile

\* C11 witness: a frame of Scenario D was drawn as 'Unknown Not Smiling'.
C11_Witness ==
    \E i \in Instances :
        drawn[i] = << [det |-> ScenarioD, label |-> "Unknown Not Smiling"] >>

\* The initialize call of instance i that awaited loadModels rejects in this step /
\* a setupWebcam call of instance i sees getUserMedia reject in this step
LoadAbortsInit(i) == initLoading'[i] < initLoading[i] /\ modelLoader = "rejected"
CameraAbortsInit(i) == camWaiting'[i] < camWaiting[i] /\ streams'[i] = streams[i]

\* Every initialize call of instance i so far has rejected and none is under way
OnlyFailedStarts(i) ==
    /\ initOutcomes[i] # {} /\ "fulfilled" \notin initOutcomes[i]
    /\ initLoading[i] = 0 /\ camWaiting[i] = 0 /\ ~metaWaiting[i]

\* C12: a start sequence that fails stops there and its initialize rejects with the
\* error: after a rejected model load no camera is requested and no loop is armed;
\* after a rejected camera request no listener is registered and no frame callback
\* is scheduled; an instance whose starts all failed never renders a frame.
C12_StartupFailureAborts ==
    [][\A i \in Instances :
          /\ LoadAbortsInit(i) =>
                /\ "ModelLoadError" \in initOutcomes'[i]
                /\ camWaiting'[i] = camWaiting[i] /\ listeners'[i] = listeners[i]
          /\ modelLoader = "rejected" =>
                /\ camWaiting'[i] = 0 /\ streams'[i] = <<>> /\ listeners'[i] = 0
                /\ rafPending'[i] = 0 /\ inflight'[i] = 0
          /\ CameraAbortsInit(i) =>
                /\ "CameraAcquisitionError" \in initOutcomes'[i]
                /\ listeners'[i] = listeners[i] /\ rafPending'[i] = rafPending[i]
                /\ videoStream'[i] = videoStream[i]
          /\ OnlyFailedStarts(i)' =>
                /\ listeners'[i] = 0 /\ rafPending'[i] = 0 /\ inflight'[i] = 0
                /\ drawn'[i] = <<>>]_vars

\* C12 witness: the models loaded, the camera refused, and the one initialize call
\* of the instance has rejected with the camera's error.
C12_Witness ==
    \E i \in Instances :
        /\ modelLoader = "resolved" /\ budget[i].init = 0
        /\ initOutcomes[i] = {"CameraAcquisitionError"}
        /\ OnlyFailedStarts(i) /\ listeners[i] = 0

\* C13: the load outcome exists only once all four loads have settled; it is a
\* success exactly when all four succeeded, and otherwise a rejection whose value
\* lists the failure of every failed load.
C13_AggregateOfAllFailures ==
    LET failed == {n \in Nets : netStatus[n] = "rejected"}
    IN  /\ modelLoader \in {"resolved", "rejected"} =>
              \A n \in Nets : netStatus[n] \in {"fulfilled", "rejected"}
        /\ modelLoader = "resolved" => failed = {}
        /\ modelLoader = "rejected" => failed # {}
        /\ \A o \in observed :
              /\ o[1] = (IF failed = {} THEN "resolved" ELSE "rejected")
              /\ o[2] = failed

\* C13 witness: two of the four loads failed and a caller has seen both failures.
C13_Witness ==
    /\ modelLoader = "rejected"
    /\ \E o \in observed : o[1] = "rejected" /\ Cardinality(o[2]) = 2
    /\ \E n \in Nets : netStatus[n] = "fulfilled"

\* C14: once the load has rejected it stays rejected: no later loadModels call, from
\* any instance, starts another load, and every caller that resumes sees that same
\* rejection.
C14_FailedLoadIsCached ==
    [][modelLoader = "rejected" =>
          /\ modelLoader' = "rejected"
          /\ loadsStarted' = loadsStarted
          /\ netStatus' = netStatus
          /\ observed' \subseteq {<<"rejected", Rejected(netStatus)>>}]_vars

\* C14 witness: a loadModels call made after the rejection has seen it, and the
\* load was still started once.
C14_Witness ==
    /\ modelLoader = "rejected" /\ lateCalls > 0 /\ loadsStarted = 1
    /\ \A i \in Instances : initLoading[i] = 0 /\ initOutcomes[i] = {"ModelLoadError"}

\* stopProcessing, and with it stopWebcam, is called on instance i in this step
StopCalled(i) == budget'[i].stop < budget[i].stop

\* C15: a stopWebcam call that finds no stream changes nothing; of two calls that
\* overlap, the one that completes second finds nothing left and changes nothing;
\* no step adds more than one surface to the pool.
C15_StopIsIdempotent ==
    [][\A i \in Instances :
          /\ (StopCalled(i) /\ videoStream[i] = NoStream) =>
                /\ videoStream'[i] = NoStream
                /\ streams'[i] = streams[i] /\ stopping'[i] = stopping[i]
                /\ canvas'[i] = canvas[i] /\ canvasPool'[i] = canvasPool[i]
                /\ faceMatcher'[i] = faceMatcher[i]
                /\ labeledDescriptors'[i] = labeledDescriptors[i]
          /\ (StopCompletes(i) /\ videoStream[i] = NoStream) =>
                /\ videoStream'[i] = NoStream
                /\ canvas'[i] = canvas[i] /\ canvasPool'[i] = canvasPool[i]
                /\ faceMatcher'[i] = faceMatcher[i]
                /\ labeledDescriptors'[i] = labeledDescriptors[i]
          /\ Len(canvasPool'[i]) <= Len(canvasPool[i]) + 1]_vars

\* C15 witness: the instance was started once and stopped twice; both calls are
\* over and the pool holds the one surface.
C15_Witness ==
    \E i \in Instances :
        /\ budget[i].stop = 0 /\ stopping[i] = EmptyBag
        /\ Len(streams[i]) = 1 /\ videoStream[i] = NoStream
        /\ canvas[i] = NoCanvas /\ canvasPool[i] = << <<i, 1>> >>
        /\ labeledDescriptors[i] = {"alice"} /\ faceMatcher[i] = NoMatcher

\* The render of this step queried the matcher of instance i: it drew a label
MatcherQueried(i) ==
    IterationEnds(i) /\ rafPending'[i] > rafPending[i] /\ drawn'[i] # <<>>

\* C16: whenever a frame is matched, the matcher is the one built from the gallery
\* as it is now; a change of the gallery is followed by a rebuild before the next
\* query.
C16_MatcherReflectsGallery ==
    [][\A i \in Instances :
          MatcherQueried(i) => faceMatcher[i] = BuildMatcher(labeledDescriptors[i])]_vars

\* Fetches of the reference of Labels[k] that instance i starts in this step
FetchesStarted(i, k) ==
    {b \in BagToSet(builds'[i]) : b.k = k /\ CopiesIn(b, builds'[i]) > CopiesIn(b, builds[i])}

\* C17: while the gallery is not cleared a reference image is requested at most
\* once: a step starts at most one fetch of a label, and only of a label that was
\* not requested since the last clear and that the gallery does not hold.
C17_FetchedAtMostOnce ==
    [][\A i \in Instances : \A k \in 1..Len(Labels) :
          \A b \in FetchesStarted(i, k) :
              /\ CopiesIn(b, builds'[i]) = CopiesIn(b, builds[i]) + 1
              /\ FetchesStarted(i, k) = {b}
              /\ Labels[k] \notin fetched[i]
              /\ Labels[k] \notin labeledDescriptors[i]]_vars

\* C18: a stopWebcam call that finds a stream stops every track of it, but for the
\* one whose stop() failed, and goes on to release: the handle, the surface and the
\* matcher are cleared when it completes.
C18_TrackFailureNotFatal ==
    [][\A i \in Instances :
          (StopCalled(i) /\ videoStream[i] # NoStream) =>
              /\ Cardinality(streams'[i][videoStream[i]]) <= 1
              /\ BagCardinality(stopping'[i]) = BagCardinality(stopping[i]) + 1]_vars

\* The surfaces held in the pools of all instances
PooledSurfaces ==
    UNION {{canvasPool[i][k] : k \in 1..Len(canvasPool[i])} : i \in Instances}

\* C19: the pool is one for the whole page: an instance that acquires a surface
\* while any instance has released one takes a released surface and creates none,
\* and all pooled surfaces together are at most maxCanvasPoolSize.
C19_PoolIsShared ==
    [][/\ \A j \in Instances :
             (Acquires(j) /\ PooledSurfaces # {}) =>
                 /\ canvas'[j] \in PooledSurfaces
                 /\ canvasCreated'[j] = canvasCreated[j]
       /\ Cardinality(PooledSurfaces') <= maxCanvasPoolSize]_vars

C21_ExclusiveOwnership ==
    \A i \in Instances :
        /\ canvas[i] # NoCanvas =>
              \A j \in Instances : \A k \in 1..Len(canvasPool[j]) :
                  canvasPool[j][k] # canvas[i]
        /\ \A k, l \in 1..Len(canvasPool[i]) :
              k # l => canvasPool[i][k] # canvasPool[i][l]

\* C21 witness: the surface that createCanvas created and cleanupCanvas pooled is
\* active again, taken from the pool by the setupCanvas of a 'play' after the stop.
C21_Witness ==
    \E i \in Instances :
        /\ Len(streams[i]) = 1 /\ videoStream[i] = NoStream /\ stopping[i] = EmptyBag
        /\ budget[i].play < CycleBudget(i).play
        /\ canvas[i] = <<i, 1>> /\ canvasCreated[i] = 1 /\ canvasPool[i] = <<>>

\* C22: while the instance holds no stream (none acquired yet, or released by a
\* stop) it holds no active surface and no cached matcher.
C22_NothingHeldWithoutStream ==
    \A i \in Instances :
        videoStream[i] = NoStream =>
            canvas[i] = NoCanvas /\ faceMatcher[i] = NoMatcher

\* C23: whenever the render step of a frame iteration can run (its inference may
\* resolve now and updateCanvas then runs), the instance holds an active surface
\* and a built matcher, so that the render dereferences neither null.
C23_RenderHasSurfaceAndMatcher ==
    \A i \in Instances :
        ENABLED FrameRenders(i) =>
            canvas[i] # NoCanvas /\ faceMatcher[i] # NoMatcher

====
